---- MODULE Spec2Model ----
(***************************************************************************)
(* A model of leabra7/log.py: DataFrameBuffer (append, _pad, to_df) and    *)
(* Logger (__init__, record, to_df), together with the observable target   *)
(* (a Layer) the Logger samples.                                           *)
(*                                                                         *)
(* Python values are encoded so that every cell has one type: the null     *)
(* marker None is the empty tuple, a number v is the 1-tuple <<v>>.        *)
(* Floats are fixed-point integers in hundredths (0.0 is 0, 1.0 is 100).   *)
(* A dict is a sequence of [k, v] entries in insertion order.              *)
(***************************************************************************)
EXTENDS Integers, Sequences, FiniteSets, TLC

(***************************************************************************)
(* Bounds of the model.                                                    *)
(***************************************************************************)
MaxRows == 2
MaxRowLen == 2
MaxAttrs == 2
LayerSize == 2

VARIABLES
    target,    \* the observed Layer: [name, units]
    attrs,     \* the iterables passed to Logger(...): id -> [kind, items, pos]
    loggers,   \* the two Loggers on target: id -> [target_name, attrs, buffer]
    dfb,       \* a DataFrameBuffer used directly (without a Logger)
    rows,      \* history: the rows passed to dfb.append, in call order
    calls,     \* history: per Logger, the number of record() calls that returned
    recorded,  \* the Loggers that have recorded in the current tick
    held,      \* the last table dfb.to_df() returned, as its holder reads it
    ret        \* the outcome of the last call

vars == <<target, attrs, loggers, dfb, rows, calls, recorded, held, ret>>

(***************************************************************************)
(* Values.                                                                 *)
(***************************************************************************)
None == <<>>

Some(v) == <<v>>

Acts == {0, 100}

Loggers == {1, 2}

AttrNames == {"avg_act", "unit_act", "foobar"}

SeqsUpTo(S, n) == UNION {[1..m -> S] : m \in 0..n}

Obs(k, v) == [k |-> k, v |-> v]

\* the observations a row is made of: column a with two values (so that a cell
\* holding another row's value is told apart), column b with one
AttrObs == {Obs("a", Some(0)), Obs("a", Some(100)), Obs("b", Some(0))}

\* ObjObs: the rows a caller can hand to DataFrameBuffer.append
ObjObs == SeqsUpTo(AttrObs, MaxRowLen)

Nones(n) == [i \in 1..n |-> None]

(***************************************************************************)
(* dict helpers (insertion-ordered mapping as a sequence of entries).      *)
(***************************************************************************)
Keys(buf) == {buf[i].k : i \in 1..Len(buf)}

Index(buf, k) == CHOOSE i \in 1..Len(buf) : buf[i].k = k

Col(buf, k) == buf[Index(buf, k)].v

(***************************************************************************)
(* DataFrameBuffer                                                         *)
(***************************************************************************)
\* __init__: length = 0, buf = defaultdict(new)
DataFrameBuffer == [length |-> 0, buf |-> <<>>]

\* a default factory that does not backfill the earlier rows
new_empty(length) == <<>>

\* new(): the default factory of buf, [None] * self.length
new(length) == Nones(length)

\* a mapping that puts a new key before the existing ones
getitem_front(buf, length, k) ==
    IF k \in Keys(buf) THEN buf ELSE <<[k |-> k, v |-> new(length)]>> \o buf

\* self.buf[k]: a missing key is inserted with new() before it is returned
getitem(buf, length, k) ==
    IF k \in Keys(buf) THEN buf ELSE Append(buf, [k |-> k, v |-> new(length)])

\* self.buf[k].append(v)
buf_append(buf, length, k, v) ==
    LET b == getitem(buf, length, k)
        i == Index(b, k)
    IN  [b EXCEPT ![i].v = Append(@, v)]

\* for k, v in row: self.buf[k].append(v)
RECURSIVE append_row(_, _, _)
append_row(buf, length, row) ==
    IF row = <<>> THEN buf
    ELSE append_row(buf_append(buf, length, Head(row).k, Head(row).v),
                    length, Tail(row))

\* a padding that inserts the nulls at the front of the column
pad_col_front(v, length) ==
    IF Len(v) < length THEN Nones(length - Len(v)) \o v ELSE v

\* while len(v) < self.length: v.append(None)
pad_col(v, length) ==
    IF Len(v) < length THEN v \o Nones(length - Len(v)) ELSE v

\* _pad: for _, v in self.buf.items(): pad v
_pad(self) ==
    [self EXCEPT !.buf = [i \in 1..Len(self.buf) |->
                            [k |-> self.buf[i].k,
                             v |-> pad_col(self.buf[i].v, self.length)]]]

\* an append that pads before it increments the row count
append_pad_first(self, row) ==
    LET filled == append_row(self.buf, self.length, row)
        padded == _pad([length |-> self.length, buf |-> filled])
    IN  [length |-> self.length + 1, buf |-> padded.buf]

\* append(row)
append(self, row) ==
    LET filled == append_row(self.buf, self.length, row)
    IN  _pad([length |-> self.length + 1, buf |-> filled])

\* pd.DataFrame.from_dict(self.buf) raises ValueError when the columns of the
\* dict differ in length
Ragged(buf) == \E i, j \in 1..Len(buf) : Len(buf[i].v) # Len(buf[j].v)

NoTable == [columns |-> <<>>, nrows |-> 0, data |-> <<>>]

\* the DataFrame built from a dict of equally long columns: one column per
\* key in key order, one row per list position (no row when there is no
\* column); None cells are kept as the null marker
from_dict(buf) ==
    [columns |-> [i \in 1..Len(buf) |-> buf[i].k],
     nrows   |-> IF buf = <<>> THEN 0 ELSE Len(buf[1].v),
     data    |-> [i \in 1..Len(buf) |-> buf[i].v]]

\* a to_df that condenses the buffer: the rows are handed over to the table
to_df_flush(self) ==
    IF Ragged(self.buf)
    THEN [raised |-> TRUE, table |-> NoTable, self |-> self]
    ELSE [raised |-> FALSE, table |-> from_dict(self.buf),
          self |-> DataFrameBuffer]

\* to_df: the returned table (or the exception) and the buffer after the call
to_df(self) ==
    IF Ragged(self.buf)
    THEN [raised |-> TRUE, table |-> NoTable, self |-> self]
    ELSE [raised |-> FALSE, table |-> from_dict(self.buf), self |-> self]

\* a DataFrame that shares its columns with the lists of the buffer
frame_view(t, self) == from_dict(self.buf)

\* the DataFrame t as its holder reads it once the buffer has become self:
\* from_dict copied the lists into arrays of the frame's own
frame_after(t, self) == t

\* cell (i, c) of a table
Cell(t, i, c) == t.data[CHOOSE j \in 1..Len(t.columns) : t.columns[j] = c][i]

(***************************************************************************)
(* The observed target: a Layer with LayerSize units (ObservableMixin).    *)
(***************************************************************************)
Units == [1..LayerSize -> Acts]

Layer(name) == [name |-> name, units |-> [i \in 1..LayerSize |-> 0]]

RECURSIVE SumTo(_, _)
SumTo(units, n) == IF n = 0 THEN 0 ELSE units[n] + SumTo(units, n - 1)

avg_act(layer) == SumTo(layer.units, Len(layer.units)) \div Len(layer.units)

IsUnitAttr(attr) == Len(attr) >= 5 /\ SubSeq(attr, 1, 5) = "unit_"

\* _parse_unit_attr: strips the "unit_" prefix
_parse_unit_attr(attr) == SubSeq(attr, 6, Len(attr))

UnitAttrs == {"act"}

SimpleAttrs == {"avg_act"}

\* an observe that numbers the units from 1
observe_from1(layer, attr) ==
    IF attr \in SimpleAttrs
    THEN [raised |-> FALSE, obs |-> <<Obs(attr, Some(avg_act(layer)))>>]
    ELSE IF IsUnitAttr(attr) /\ _parse_unit_attr(attr) \in UnitAttrs
    THEN [raised |-> FALSE,
          obs |-> [i \in 1..Len(layer.units) |->
                     Obs("unit" \o ToString(i) \o "_" \o _parse_unit_attr(attr),
                         Some(layer.units[i]))]]
    ELSE [raised |-> TRUE, obs |-> <<>>]

\* observe(attr): the list of observations, or ValueError
observe(layer, attr) ==
    IF attr \in SimpleAttrs
    THEN [raised |-> FALSE, obs |-> <<Obs(attr, Some(avg_act(layer)))>>]
    ELSE IF IsUnitAttr(attr) /\ _parse_unit_attr(attr) \in UnitAttrs
    THEN [raised |-> FALSE,
          obs |-> [i \in 1..Len(layer.units) |->
                     Obs("unit" \o ToString(i - 1) \o "_" \o _parse_unit_attr(attr),
                         Some(layer.units[i]))]]
    ELSE [raised |-> TRUE, obs |-> <<>>]

(***************************************************************************)
(* Logger                                                                  *)
(***************************************************************************)
\* the arguments a caller can pass as attrs (Iterable[str]): a list, or a
\* one-shot iterator over a list
AttrLists == SeqsUpTo(AttrNames, MaxAttrs)

Iterable(kind, items) == [kind |-> kind, items |-> items, pos |-> 0]

\* iter(self.attrs): a list is iterated from its start on every call, an
\* iterator from where the last iteration left it
Remaining(it) ==
    IF it.kind = "list" THEN it.items
    ELSE SubSeq(it.items, it.pos + 1, Len(it.items))

\* __init__
Logger(tgt, ref) ==
    [target_name |-> tgt.name, attrs |-> ref, buffer |-> DataFrameBuffer]

\* for a in self.attrs: row.extend(self.target.observe(a))
\* stops at the first observe that raises; observed lists the calls made
RECURSIVE collect(_, _, _, _)
collect(layer, todo, row, observed) ==
    IF todo = <<>> THEN [raised |-> FALSE, row |-> row, observed |-> observed]
    ELSE LET o == observe(layer, Head(todo))
         IN  IF o.raised
             THEN [raised |-> TRUE, row |-> row,
                   observed |-> Append(observed, Head(todo))]
             ELSE collect(layer, Tail(todo), row \o o.obs,
                          Append(observed, Head(todo)))

\* a record() that appends whatever it collected before observe raised
commit_partial(buffer, c) == append(buffer, c.row)

\* the buffer after record(), given the outcome of the loop
commit(buffer, c) == IF c.raised THEN buffer ELSE append(buffer, c.row)

\* a record() that consumes the attribute list it iterates
record_pop(self, layer, it) ==
    LET c == collect(layer, Remaining(it), <<>>, <<>>)
    IN  [raised   |-> c.raised,
         row      |-> c.row,
         observed |-> c.observed,
         buffer   |-> commit(self.buffer, c),
         it       |-> IF it.kind = "list"
                      THEN [it EXCEPT !.items = SubSeq(@, Len(c.observed) + 1, Len(@))]
                      ELSE [it EXCEPT !.pos = @ + Len(c.observed)]]

\* record(): the outcome of the loop, the buffer and the iterable afterwards
record(self, layer, it) ==
    LET c == collect(layer, Remaining(it), <<>>, <<>>)
    IN  [raised   |-> c.raised,
         row      |-> c.row,
         observed |-> c.observed,
         buffer   |-> commit(self.buffer, c),
         it       |-> IF it.kind = "list" THEN it
                      ELSE [it EXCEPT !.pos = @ + Len(c.observed)]]

(***************************************************************************)
(* The state machine.                                                      *)
(***************************************************************************)
Ret(op, who, raised, observed, row, table) ==
    [op |-> op, who |-> who, raised |-> raised, observed |-> observed,
     row |-> row, table |-> table]

Init ==
    /\ target = Layer("in")
    /\ \E kind \in {"list", "iter"}, items \in AttrLists :
          attrs = [id \in {1, 2} |-> Iterable(kind, items)]
    /\ \E ref2 \in {1, 2} :
          loggers = [l \in Loggers |->
                       Logger(target, IF l = 1 THEN 1 ELSE ref2)]
    /\ dfb = DataFrameBuffer
    /\ rows = <<>>
    /\ calls = [l \in Loggers |-> 0]
    /\ recorded = {}
    /\ held = [valid |-> FALSE, n |-> 0, table |-> NoTable]
    /\ ret = Ret("init", 0, FALSE, <<>>, <<>>, NoTable)

\* dfb.append(row)
Append_(row) ==
    /\ dfb.length < MaxRows
    /\ dfb' = append(dfb, row)
    /\ rows' = Append(rows, row)
    /\ held' = IF held.valid
               THEN [held EXCEPT !.table = frame_after(@, dfb')]
               ELSE held
    /\ ret' = Ret("append", 0, FALSE, <<>>, row, NoTable)
    /\ UNCHANGED <<target, attrs, loggers, calls, recorded>>

\* dfb.to_df()
BufToDf ==
    LET r == to_df(dfb)
    IN  /\ dfb' = r.self
        /\ held' = IF r.raised THEN held
                   ELSE [valid |-> TRUE, n |-> Len(rows), table |-> r.table]
        /\ ret' = Ret("to_df", 0, r.raised, <<>>, <<>>, r.table)
        /\ UNCHANGED <<target, attrs, loggers, rows, calls, recorded>>

\* loggers[l].record()
Record(l) ==
    LET self == loggers[l]
        r == record(self, target, attrs[self.attrs])
    IN  /\ self.buffer.length < MaxRows
        /\ loggers' = [loggers EXCEPT ![l].buffer = r.buffer]
        /\ attrs' = [attrs EXCEPT ![self.attrs] = r.it]
        /\ calls' = [calls EXCEPT ![l] = IF r.raised THEN @ ELSE @ + 1]
        /\ recorded' = recorded \cup {l}
        /\ ret' = Ret("record", l, r.raised, r.observed, r.row, NoTable)
        /\ UNCHANGED <<target, dfb, rows, held>>

\* loggers[l].to_df()
ToDf(l) ==
    LET r == to_df(loggers[l].buffer)
    IN  /\ loggers' = [loggers EXCEPT ![l].buffer = r.self]
        /\ ret' = Ret("to_df", l, r.raised, <<>>, <<>>, r.table)
        /\ UNCHANGED <<target, attrs, dfb, rows, calls, recorded, held>>

\* the simulation driver advances the target by one tick
Tick ==
    /\ \E u \in Units : target' = [target EXCEPT !.units = u]
    /\ recorded' = {}
    /\ ret' = Ret("tick", 0, FALSE, <<>>, <<>>, NoTable)
    /\ UNCHANGED <<attrs, loggers, dfb, rows, calls, held>>

\* one Logger driven at any cadence: record() and to_df() in any number and
\* order between the ticks of the simulation
Next ==
    \/ Record(1)
    \/ ToDf(1)
    \/ Tick

Spec == Init /\ [][Next]_vars

\* a DataFrameBuffer used on its own, with arbitrary rows; the Loggers are
\* constructed (with an empty attribute list) and never used
InitBuf ==
    /\ Init
    /\ attrs = [id \in {1, 2} |-> Iterable("list", <<>>)]
    /\ loggers = [l \in Loggers |-> Logger(target, l)]

NextBuf ==
    \/ \E row \in ObjObs : Append_(row)
    \/ BufToDf

SpecBuf == InitBuf /\ [][NextBuf]_vars

\* two Loggers on the same target, each recording exactly once per tick, in
\* any order within the tick
RecordOnce(l) == l \notin recorded /\ Record(l)

TickAll == recorded = Loggers /\ Tick

NextTick ==
    \/ \E l \in Loggers : RecordOnce(l)
    \/ \E l \in Loggers : ToDf(l)
    \/ TickAll

SpecTick == Init /\ [][NextTick]_vars

\* target.observe(a), called directly
Observe(a) ==
    LET o == observe(target, a)
    IN  /\ ret' = Ret("observe", 0, o.raised, <<a>>, o.obs, NoTable)
        /\ UNCHANGED <<target, attrs, loggers, dfb, rows, calls, recorded, held>>

\* the target observed directly, for every attribute name, between ticks
NextObserve ==
    \/ \E a \in AttrNames : Observe(a)
    \/ Tick

SpecObserve == Init /\ [][NextObserve]_vars

\* the names the target can be given
Names == {"in", "out"}

\* a Logger whose target_name is a live lookup of the target's name
renamed_live(self, n) == [self EXCEPT !.target_name = n]

\* a Logger after target.name = n: target_name was bound to the name string
\* in __init__ and is not rebound by an assignment to target.name
renamed(self, n) == self

\* target.name = n
Rename(n) ==
    /\ n # target.name
    /\ target' = [target EXCEPT !.name = n]
    /\ loggers' = [l \in Loggers |-> renamed(loggers[l], n)]
    /\ ret' = Ret("rename", 0, FALSE, <<>>, <<>>, NoTable)
    /\ UNCHANGED <<attrs, dfb, rows, calls, recorded, held>>

\* the Loggers recording at any cadence while the target is renamed at any
\* time (the units of the target stay as constructed)
NextRename ==
    \/ \E l \in Loggers : Record(l)
    \/ \E n \in Names : Rename(n)

SpecRename == Init /\ [][NextRename]_vars

(***************************************************************************)
(* Properties of DataFrameBuffer.append.                                   *)
(***************************************************************************)
\* the names that occur in a sequence of rows
NamesIn(rs) == UNION {{rs[i][j].k : j \in 1..Len(rs[i])} : i \in 1..Len(rs)}

RowNamesOf(row) == {row[j].k : j \in 1..Len(row)}

\* the values paired with c in a row
RowVals(row, c) == {row[j].v : j \in {n \in 1..Len(row) : row[n].k = c}}

\* the value of the first pair of the row that names c
FirstVal(row, c) ==
    row[CHOOSE j \in 1..Len(row) :
          row[j].k = c /\ \A n \in 1..(j - 1) : row[n].k # c].v

\* the 1-based index of the first append whose row names c
FirstSeen(rs, c) ==
    CHOOSE i \in 1..Len(rs) :
        c \in RowNamesOf(rs[i]) /\ \A n \in 1..(i - 1) : c \notin RowNamesOf(rs[n])

\* C1: after every append, whatever the rows were (empty, new names, missing
\* names, a name more than once), every column of buf has length exactly
\* `length`.
C1_ColumnsHaveRowCountLength ==
    \A i \in 1..Len(dfb.buf) : Len(dfb.buf[i].v) = dfb.length

\* C2: after n appends the table of to_df has exactly one column per name
\* that occurred in a row, and cell (i, c) is the value paired with c in the
\* i-th row, or None if the i-th row did not name c.
C2_TableHoldsEveryRow ==
    LET r == to_df(dfb)
        t == r.table
    IN  /\ ~r.raised
        /\ {t.columns[j] : j \in 1..Len(t.columns)} = NamesIn(rows)
        /\ Len(t.columns) = Cardinality(NamesIn(rows))
        /\ \A c \in NamesIn(rows) : \A i \in 1..Len(rows) :
              /\ i <= Len(Col(dfb.buf, c))
              /\ Cell(t, i, c) \in (IF c \in RowNamesOf(rows[i])
                                    THEN RowVals(rows[i], c) ELSE {None})

\* C3: a column first seen at the (k+1)-th append holds None in its first k
\* entries, followed by the value that append paired with it.
C3_NewColumnBackfilled ==
    \A c \in Keys(dfb.buf) :
        LET k == FirstSeen(rows, c) - 1
            col == Col(dfb.buf, c)
        IN  /\ Len(col) > k
            /\ \A i \in 1..k : col[i] = None
            /\ col[k + 1] = FirstVal(rows[k + 1], c)
            /\ col[k + 1] # None

\* C3 witness: R1 names {a}, R2 names {a, b}: column b is [None, R2.b]
C3_Witness ==
    /\ ret.op = "append"
    /\ Len(rows) = 2
    /\ RowNamesOf(rows[1]) = {"a"}
    /\ RowNamesOf(rows[2]) = {"a", "b"}
    /\ Col(dfb.buf, "b") = <<None, FirstVal(rows[2], "b")>>

\* C6: to_df is idempotent and non-mutating: the call leaves every buffer as
\* it was, and a to_df that directly follows a to_df on the same buffer
\* returns the same outcome.
C6_ToDfIdempotentNonMutating ==
    [][ret'.op = "to_df" =>
          /\ dfb' = dfb
          /\ loggers' = loggers
          /\ rows' = rows
          /\ (ret.op = "to_df" /\ ret.who = ret'.who) => ret' = ret]_vars

\* C6 witness: to_df has returned a table of a buffer that holds rows
C6_Witness ==
    /\ ret.op = "to_df"
    /\ ~ret.raised
    /\ ret.table.nrows >= 2
    /\ Len(ret.table.columns) = 2
    /\ dfb.length = ret.table.nrows

\* C7: the buffer only grows: the row count never decreases, no column name
\* is lost, and the entries below the previous row count are unchanged.
Grows(old, now) ==
    /\ now.length >= old.length
    /\ Keys(old.buf) \subseteq Keys(now.buf)
    /\ \A c \in Keys(old.buf) : \A i \in 1..old.length :
          /\ i <= Len(Col(now.buf, c))
          /\ Col(now.buf, c)[i] = Col(old.buf, c)[i]

C7_BufferOnlyGrows ==
    [][/\ Grows(dfb, dfb')
       /\ \A l \in Loggers : Grows(loggers[l].buffer, loggers'[l].buffer)]_vars

\* C7 witness: a second row was appended that does not name column a, which
\* keeps its first entry and is padded
C7_Witness ==
    /\ ret.op = "append"
    /\ dfb.length = 2
    /\ Keys(dfb.buf) = {"a", "b"}
    /\ RowNamesOf(ret.row) = {"b"}
    /\ Col(dfb.buf, "a") = <<Some(100), None>>

(***************************************************************************)
(* Properties of Logger.record and to_df.                                  *)
(***************************************************************************)
\* the concatenation of the observations of the attributes, in order
RECURSIVE Concat(_, _)
Concat(layer, items) ==
    IF items = <<>> THEN <<>>
    ELSE observe(layer, Head(items)).obs \o Concat(layer, Tail(items))

Configured(l) == attrs[loggers[l].attrs].items

\* C4: the number of rows of the table returned by to_df equals the number
\* of record() calls completed so far, also when no column was ever observed.
C4_TableRowsEqualCalls ==
    (ret.op = "to_df" /\ ret.who \in Loggers /\ ~ret.raised)
        => ret.table.nrows = calls[ret.who]

\* C5: when observe raises for an attribute during record(), the exception
\* reaches the caller and the buffer is exactly as before the call, also when
\* observe succeeded for earlier attributes of the same call.
C5_RaisingRecordLeavesBuffer ==
    [][(/\ ret'.op = "record"
        /\ \E i \in 1..Len(ret'.observed) :
              observe(target, ret'.observed[i]).raised)
          => (ret'.raised /\ loggers' = loggers /\ calls' = calls)]_vars

\* C5 witness: record() raised after an earlier attribute had been observed
C5_Witness ==
    /\ ret.op = "record"
    /\ ret.raised
    /\ Len(ret.observed) = 2
    /\ ret.row # <<>>
    /\ loggers[ret.who].buffer = DataFrameBuffer

\* C8: to_df never fails: in every state reached by append calls (rows that
\* repeat a name or are empty included) it returns a table.
C8_ToDfNeverFails == ret.op = "to_df" => ~ret.raised

\* C10: every successful record() observes each configured attribute once,
\* in the configured order, and appends the concatenation of the returned
\* observations; on the first call and on every later one.
C10_RecordObservesEveryAttr ==
    (ret.op = "record" /\ ~ret.raised) =>
        /\ ret.observed = Configured(ret.who)
        /\ ret.row = Concat(target, Configured(ret.who))

\* C9: two Loggers on the same target with the same attribute list, each
\* recording once per tick, end every tick with identical buffers, and a
\* record() of one Logger leaves the buffer of the other as it was.
SameAttrList ==
    /\ \A l \in Loggers : attrs[loggers[l].attrs].kind = "list"
    /\ Configured(1) = Configured(2)

C11_RecordMutatesOnlyOwnBuffer ==
    [][(ret'.op \in {"record", "to_df"} /\ ret'.who \in Loggers) =>
          /\ target' = target
          /\ attrs' = attrs
          /\ \A l \in Loggers :
                /\ loggers'[l].target_name = loggers[l].target_name
                /\ loggers'[l].attrs = loggers[l].attrs
                /\ l # ret'.who => loggers'[l] = loggers[l]
          /\ ret'.op = "to_df" => (loggers' = loggers /\ calls' = calls)]_vars

\* C12: target_name is a snapshot of the target's name taken at construction:
\* it equals the target's name when the Logger is constructed and no later
\* rename of the target or record() changes it.
C12_TargetNameIsSnapshot ==
    /\ \A l \in Loggers : loggers[l].target_name = target.name
    /\ [][\A l \in Loggers :
             loggers'[l].target_name = loggers[l].target_name]_vars

\* C12 witness: the target was renamed and the Logger has recorded since
C12_Witness ==
    /\ target.name = "out"
    /\ loggers[1].target_name = "in"
    /\ ret.op = "record"
    /\ calls[1] >= 1

\* C13: observing a simple attribute returns exactly one pair named after the
\* attribute; observing "unit_<x>" on n units returns n pairs in unit order,
\* the i-th named "unit<i>_<x>"; any other name is rejected with ValueError.
C13_ObserveShape ==
    ret.op = "observe" =>
        LET a == ret.observed[1]
        IN  /\ a = "avg_act" =>
                  /\ ~ret.raised
                  /\ Len(ret.row) = 1
                  /\ ret.row[1].k = a
            /\ a = "unit_act" =>
                  /\ ~ret.raised
                  /\ Len(ret.row) = LayerSize
                  /\ \A i \in 1..LayerSize :
                        /\ ret.row[i].k = "unit" \o ToString(i - 1) \o "_act"
                        /\ ret.row[i].v = Some(target.units[i])
            /\ a \notin {"avg_act", "unit_act"} => (ret.raised /\ ret.row = <<>>)

\* C13 witness: unit_act observed with every unit at 0.0
C13_Witness ==
    /\ ret.op = "observe"
    /\ ret.observed = <<"unit_act">>
    /\ Len(ret.row) = LayerSize
    /\ ret.row[1] = Obs("unit0_act", Some(0))
    /\ ret.row[2] = Obs("unit1_act", Some(0))
    /\ \A i \in 1..LayerSize : ret.row[i].v = Some(0)

\* the buffer after the first n of the rows were appended to an empty buffer
RECURSIVE Replay(_, _)
Replay(rs, n) ==
    IF n = 0 THEN DataFrameBuffer ELSE append(Replay(rs, n - 1), rs[n])

Aligned(b) == \A i \in 1..Len(b.buf) : Len(b.buf[i].v) = b.length

\* the values a row pairs with c, in the order of the row
ValsOf(row, c) ==
    LET Names_c(o) == o.k = c
        sel == SelectSeq(row, Names_c)
    IN  [i \in 1..Len(sel) |-> sel[i].v]

\* C15: padding touches only the tail: in an append that starts with every
\* column as long as the row count, exactly one None is appended to each
\* column the row does not name, and none to a column the row names.
C15_PadOnlyTail ==
    [][(Aligned(dfb) /\ Len(rows') = Len(rows) + 1) =>
          LET row == rows'[Len(rows')]
          IN  /\ Keys(dfb'.buf) = Keys(dfb.buf) \cup RowNamesOf(row)
              /\ \A c \in Keys(dfb'.buf) :
                    Col(dfb'.buf, c) =
                        IF c \in RowNamesOf(row)
                        THEN (IF c \in Keys(dfb.buf) THEN Col(dfb.buf, c)
                              ELSE Nones(dfb.length)) \o ValsOf(row, c)
                        ELSE Col(dfb.buf, c) \o <<None>>]_vars

\* C15 witness: the second row names only b; column a got one None
C15_Witness ==
    /\ ret.op = "append"
    /\ rows = <<<<Obs("a", Some(0)), Obs("b", Some(0))>>, <<Obs("b", Some(0))>>>>
    /\ dfb.buf = <<[k |-> "a", v |-> <<Some(0), None>>],
                   [k |-> "b", v |-> <<Some(0), Some(0)>>]>>

\* the keys of a mapping, in its order
KeyOrder(buf) == [i \in 1..Len(buf) |-> buf[i].k]

\* the names of the first n rows, each once, in the order of first occurrence
RECURSIVE AddNames(_, _)
AddNames(seen, row) ==
    IF row = <<>> THEN seen
    ELSE AddNames(IF \E i \in 1..Len(seen) : seen[i] = Head(row).k
                  THEN seen ELSE Append(seen, Head(row).k),
                  Tail(row))

RECURSIVE FirstSeenOrder(_, _)
FirstSeenOrder(rs, n) ==
    IF n = 0 THEN <<>> ELSE AddNames(FirstSeenOrder(rs, n - 1), rs[n])

\* C16: the columns of the buffer, and of the table to_df returns, are in the
\* order in which their names were first observed.
C16_ColumnsInFirstSeenOrder ==
    /\ KeyOrder(dfb.buf) = FirstSeenOrder(rows, Len(rows))
    /\ (ret.op = "to_df" /\ ret.who = 0 /\ ~ret.raised) =>
           ret.table.columns = FirstSeenOrder(rows, Len(rows))

\* C16 witness: b was observed in the first row, a in the second
C16_Witness ==
    /\ ret.op = "to_df"
    /\ ~ret.raised
    /\ Len(rows) = 2
    /\ RowNamesOf(rows[1]) = {"b"}
    /\ ret.table.columns = <<"b", "a">>

====
